---- MODULE Spec2Model ----
(***************************************************************************)
(* Model of the acquisition pipeline.  The site crawler (scraper.js):       *)
(* scrapeClinicWebsite, the coordinating loop, scrapeSinglePage, the       *)
(* page-render worker with its retry loop, discoverSitemapUrls, the        *)
(* sitemap discoverer, and the URL helpers normalizeUrl and isSameDomain.  *)
(* The extraction stage (index.js, extractor.js): the pattern draft, the   *)
(* LLM draft and mergeExtractedData, the profile merger.                   *)
(*                                                                         *)
(* A URL is a record [scheme, host, path, query, frag]: query is the list   *)
(* of the names of its query parameters, frag says that the href carries a *)
(* #fragment.  An href that `new URL` rejects has host "".  Null is        *)
(* JavaScript's null.                                                      *)
(***************************************************************************)
EXTENDS Integers, Sequences, FiniteSets, TLC

\* ------------------------------------------------------------------ bounds
MaxDepthArg == 2          \* maxDepth argument ranges over 0..MaxDepthArg
MaxPagesArg == 2          \* maxPages argument ranges over 1..MaxPagesArg
MaxEnvPages == 3          \* SCRAPER_MAX_PAGES is unset (0), 1 or MaxEnvPages
MaxEnvConcurrency == 1    \* SCRAPER_CONCURRENCY ranges over 0 (unset) .. MaxEnvConcurrency
MaxQueryLen == 2          \* an href carries at most MaxQueryLen query parameters
MaxLlmItems == 2          \* the LLM draft lists at most MaxLlmItems services
MaxPatternItems == 2      \* the pattern draft lists at most MaxPatternItems services
MaxScrapedPages == 1      \* scrapeClinicWebsite returns 0..MaxScrapedPages pages
MaxLongPages == 8         \* the prompt is built from at most MaxLongPages long pages
MaxOtherPages == 2        \* and at most MaxOtherPages further pages
MaxServicesFound == 31    \* the price rows of the pages name at most MaxServicesFound services
MaxDoctorsFound == 31     \* the pages name at most MaxDoctorsFound doctors

\* ------------------------------------------------------- program constants
DEFAULT_CONCURRENCY == 3
NAV_TIMEOUT_MS == 15000
SITEMAP_CAP == 500
maxTotalChars == 60000
MAX_PAGE_CHARS == 8000
MIN_PAGE_CHARS == 50
HEADER_CHARS == 100
DOCTORS_SLICE == 30
GOOD_CONTENT_CHARS == 500
MIN_CONTENT_CHARS == 100
MAX_CONTENT_CHARS == 50000
\* content lengths of pages: the scraper keeps at most MAX_CONTENT_CHARS of a page
LongLength == MAX_CONTENT_CHARS
OtherLengths == {3160, 3000, 60, 20}

\* --------------------------------------------------------------------- URLs
\* the query parameters normalizeUrl deletes (two of the seven of line 56) and
\* one it keeps
TRACKING_PARAMS == {"gclid", "utm_source"}
QueryParams == {"gclid", "utm_source", "id"}

Href(sch, h, p, q, f) == [scheme |-> sch, host |-> h, path |-> p, query |-> q, frag |-> f]
Url(h, p, f, t) == Href("https", h, p, IF t THEN <<"gclid">> ELSE <<>>, f)
Null == Url("", "null", FALSE, FALSE)
Bad == Url("", "bad", FALSE, FALSE)
S(p) == Url("site", p, FALSE, FALSE)
SFrag(p) == Url("site", p, TRUE, FALSE)
STrack(p) == Url("site", p, FALSE, TRUE)
Ext(p) == Url("ext", p, FALSE, FALSE)

\* `new URL(url, baseUrl)` throws
Malformed(u) == u.host = ""

\* paths that match one of IGNORE_PATTERNS / PRIORITY_PATTERNS
IGNORE_PATTERNS == {"/blog", "/login"}
PRIORITY_PATTERNS == {"/price", "/about"}

shouldIgnoreUrl(u) == u.path \in IGNORE_PATTERNS

isPriority(u) == u.path \in PRIORITY_PATTERNS

\* faulty variant: the scheme is compared as well
isSameOrigin(base, target) ==
    IF Malformed(base) \/ Malformed(target) THEN FALSE
    ELSE base.host = target.host /\ base.scheme = target.scheme

isSameDomain(base, target) ==
    IF Malformed(base) \/ Malformed(target) THEN FALSE
    ELSE base.host = target.host

\* faulty variant: only the first pair of that name goes
deleteFirstParam(query, param) ==
    LET hits == {k \in 1..Len(query) : query[k] = param}
    IN IF hits = {} THEN query
       ELSE LET k == CHOOSE h \in hits : \A g \in hits : h <= g
            IN SubSeq(query, 1, k - 1) \o SubSeq(query, k + 1, Len(query))

\* searchParams.delete(param): every pair of that name goes
deleteParam(query, param) == SelectSeq(query, LAMBDA q : q # param)

\* faulty variant: the fragment stays
normalizeUrlKeepHash(u) ==
    IF Malformed(u) THEN Null
    ELSE [u EXCEPT !.query = deleteParam(deleteParam(@, "gclid"), "utm_source")]

\* hash = '' and one searchParams.delete per tracking parameter, in the order
\* of the list of line 56
normalizeUrl(u) ==
    IF Malformed(u) THEN Null
    ELSE [u EXCEPT !.frag = FALSE,
                   !.query = deleteParam(deleteParam(@, "gclid"), "utm_source")]

\* ----------------------------------------------------------- sequence helpers
Range(seq) == {seq[k] : k \in 1..Len(seq)}

\* [...new Set(seq)]: the first occurrences, in order
Dedupe(seq) ==
    LET first == {k \in 1..Len(seq) : \A j \in 1..(k - 1) : seq[j] # seq[k]}
        rank == [k \in first |-> Cardinality({j \in first : j <= k})]
        nth == [n \in 1..Cardinality(first) |-> CHOOSE k \in first : rank[k] = n]
    IN [n \in 1..Cardinality(first) |-> seq[nth[n]]]

\* Array.prototype.slice(from, to) with 0-based, end-exclusive indices
Slice(seq, from, to) ==
    LET hi == IF to < Len(seq) THEN to ELSE Len(seq)
    IN IF from >= hi THEN <<>> ELSE SubSeq(seq, from + 1, hi)

\* ------------------------------------------------------------------ the site
\* hrefs of each page: the ones in navigation containers, then all anchors
SiteNav(p) ==
    CASE p = "/" -> <<S("/about"), S("/blog")>>
      [] OTHER -> <<>>

SiteAll(p) ==
    CASE p = "/" -> <<S("/about"), S("/blog"), SFrag("/a"), S("/a"), STrack("/price"),
                      Ext("/x"), Bad, SFrag("/")>>
      [] p = "/about" -> <<S("/"), S("/b"), S("/price")>>
      [] p = "/a" -> <<SFrag("/b"), S("/about"), S("/c")>>
      [] p = "/price" -> <<S("/a"), S("/login")>>
      [] p = "/b" -> <<S("/c")>>
      [] OTHER -> <<>>

\* the paths of the site
SitePaths == {"/", "/about", "/a", "/price", "/b", "/c", "/blog", "/login"}

\* robots.txt and the sitemap documents of the site; a sitemap is named by a string
ROBOTS_SITEMAPS == <<"/sm_index.xml">>

\* a second site: its robots.txt names one sitemap that lists more URLs than
\* SITEMAP_CAP and a further sitemap
HUGE_ROBOTS_SITEMAPS == <<"/sm_huge.xml">>

HugeLocs == [k \in 1..(SITEMAP_CAP + 1) |-> S("/p" \o ToString(k))]

RobotsSitemaps(huge) == IF huge THEN HUGE_ROBOTS_SITEMAPS ELSE ROBOTS_SITEMAPS

SitemapUrlsOf(s) ==
    CASE s = "/sm_index.xml" -> <<>>
      [] s = "/sm_pages.xml" -> <<STrack("/price"), S("/b"), S("/blog"), Ext("/y"),
                                  SFrag("/")>>
      [] s = "/sitemap.xml" -> <<SFrag("/"), S("/b")>>
      [] s = "/sm_huge.xml" -> HugeLocs
      [] s = "/sm_more.xml" -> <<S("/b")>>
      [] OTHER -> <<>>

SitemapChildrenOf(s) ==
    CASE s = "/sm_index.xml" -> <<"/sm_pages.xml", "/sm_index.xml">>
      [] s = "/sm_pages.xml" -> <<>>
      [] s = "/sm_huge.xml" -> <<"/sm_more.xml">>
      [] OTHER -> <<>>

SitemapExists(s) ==
    s \in {"/sm_index.xml", "/sm_pages.xml", "/sitemap.xml", "/sm_huge.xml", "/sm_more.xml"}

\* ------------------------------------------------------------------- state
VARIABLES
    cfg,               \* the call: startUrl, maxDepth, maxPages, and the environment
    pc,                \* position of scrapeClinicWebsite's control flow
    browser,           \* "none" | "open" | "closed"
    cleanStartUrl,
    sitemapCandidates, \* discoverSitemapUrls: Set of sitemap names
    toFetch,           \* discoverSitemapUrls: queue of sitemap names
    discovered,        \* discoverSitemapUrls: Set of raw locs, in insertion order
    fetchLog,          \* discoverSitemapUrls: what each fetchText call returned
    visited,
    scrapedPages,
    currentDepthUrls,
    totalLinksFound,
    depth,
    urlsToScrape,
    i,
    nextDepthLinks,
    dispatched,        \* history: every scrapeSinglePage call, in dispatch order
    workers,           \* the scrapeSinglePage calls of the current batch
    events,            \* what onProgress has received
    returned,          \* the value scrapeClinicWebsite resolved with (Null record: none)
    \* the URL helpers applied to a pair of hrefs
    urlPc,             \* "off" | "input" | "compared" | "normalized" | "renormalized"
    hrefA,
    hrefB,
    sameAB,            \* isSameDomain(hrefA, hrefB)
    normA,             \* normalizeUrl(hrefA)
    normB,             \* normalizeUrl(hrefB)
    renormA,           \* normalizeUrl(normA)
    \* the extraction stage of the pipeline (index.js)
    extractPc,         \* "off" | "scraped" | "pages" | "llm" | "merge" | "done" | "error"
    apiKey,            \* OPENAI_API_KEY is set
    pagesLength,       \* pages.length, the number of pages scrapeClinicWebsite returned
    llmReply,          \* "none" | "rejected" | "unparsable" | "parsed"
    regexData,         \* the pattern draft, normalizeClinicData's result
    llmData,           \* the LLM draft, extractWithLLM's result
    clinicData,        \* the profile
    \* extractWithLLM's prompt (part_002)
    promptPc,          \* "off" | "pages" | "loop" | "prices" | "built"
    pageData,          \* the pages: [id, len], len the length of page.content
    allPricesLength,   \* allPrices.length
    sortedPages,
    pageIndex,         \* position of the for-of loop in sortedPages
    contentChunks,     \* [kind, id, len]: the page's text of len characters, or the prices
    totalChars,
    reached,           \* the loop's iterations: [id, len, remaining, included]
    \* extractPageData's main text (part_004)
    pagePc,            \* "off" | "loaded" | "extracted"
    dom,               \* selector -> the clean text of the selection, or absent
    content,           \* the page's content: [from, len]
    \* normalizeClinicData's services and doctors (part_003)
    normPc,            \* "off" | "pages" | "normalized"
    matches,           \* what the patterns match in the pages
    patternDraft       \* [services, doctors]

crawlVars == <<cfg, pc, browser, cleanStartUrl, sitemapCandidates, toFetch, discovered, fetchLog,
          visited, scrapedPages, currentDepthUrls, totalLinksFound, depth,
          urlsToScrape, i, nextDepthLinks, dispatched, workers, events, returned>>

urlVars == <<urlPc, hrefA, hrefB, sameAB, normA, normB, renormA>>

\* what scrapeClinicWebsite does not touch
extractVars == <<extractPc, apiKey, pagesLength, llmReply, regexData, llmData, clinicData>>

promptVars == <<promptPc, pageData, allPricesLength, sortedPages, pageIndex, contentChunks,
                totalChars, reached>>

pageVars == <<pagePc, dom, content>>

normVars == <<normPc, matches, patternDraft>>

pureVars == <<promptVars, pageVars, normVars>>

helperVars == <<urlVars, extractVars, pureVars>>

vars == <<crawlVars, helperVars>>

discoverVars == <<sitemapCandidates, toFetch, discovered, fetchLog>>
loopVars == <<visited, scrapedPages, currentDepthUrls, totalLinksFound, depth,
              urlsToScrape, i, nextDepthLinks, dispatched>>

\* const CONCURRENCY = Number(process.env.SCRAPER_CONCURRENCY) || 3
CONCURRENCY == IF cfg.envConcurrency # 0 THEN cfg.envConcurrency ELSE DEFAULT_CONCURRENCY

\* const MAX_PAGES = Number(process.env.SCRAPER_MAX_PAGES) || maxPages
MAX_PAGES == IF cfg.envMaxPages # 0 THEN cfg.envMaxPages ELSE cfg.maxPages

Event(type, url, n) == [type |-> type, url |-> url, n |-> n]

\* sendProgress(type, data)
sendProgress(log, type, url, n) == Append(log, Event(type, url, n))

StartUrls == {SFrag("/"), Bad}

\* the URL helpers are not in use
UrlOff ==
    /\ urlPc = "off"
    /\ hrefA = Null
    /\ hrefB = Null
    /\ sameAB = FALSE
    /\ normA = Null
    /\ normB = Null
    /\ renormA = Null

\* no value yet
NoData == [none |-> TRUE]

\* the extraction stage has not started
ExtractOff ==
    /\ extractPc = "off"
    /\ apiKey = FALSE
    /\ pagesLength = 0
    /\ llmReply = "none"
    /\ regexData = NoData
    /\ llmData = NoData
    /\ clinicData = NoData

\* extractWithLLM is not in use
PromptOff ==
    /\ promptPc = "off"
    /\ pageData = <<>>
    /\ allPricesLength = 0
    /\ sortedPages = <<>>
    /\ pageIndex = 0
    /\ contentChunks = <<>>
    /\ totalChars = 0
    /\ reached = <<>>

\* the empty string
NoText == [from |-> "", len |-> 0]

\* extractPageData is not in use
PageOff ==
    /\ pagePc = "off"
    /\ dom = <<>>
    /\ content = NoText

\* normalizeClinicData's extractors are not in use
NormOff ==
    /\ normPc = "off"
    /\ matches = <<>>
    /\ patternDraft = <<>>

PureOff == PromptOff /\ PageOff /\ NormOff

\* scrapeClinicWebsite has not been called
CrawlOff(c) ==
    /\ cfg = c
    /\ pc = "idle"
    /\ browser = "none"
    /\ cleanStartUrl = Null
    /\ sitemapCandidates = {}
    /\ toFetch = <<>>
    /\ discovered = <<>>
    /\ fetchLog = <<>>
    /\ visited = {}
    /\ scrapedPages = <<>>
    /\ currentDepthUrls = <<>>
    /\ totalLinksFound = 0
    /\ depth = 0
    /\ urlsToScrape = <<>>
    /\ i = 0
    /\ nextDepthLinks = <<>>
    /\ dispatched = <<>>
    /\ workers = <<>>
    /\ events = <<>>
    /\ returned = <<>>

Init ==
    /\ PureOff
    /\ UrlOff
    /\ ExtractOff
    /\ \E c \in [startUrl : StartUrls,
                 maxDepth : 0..MaxDepthArg,
                 maxPages : 1..MaxPagesArg,
                 envConcurrency : 0..MaxEnvConcurrency,
                 envMaxPages : {0, 1, MaxEnvPages},
                 hugeSitemap : {FALSE}] : CrawlOff(c)

\* ------------------------------------------------- scrapeClinicWebsite: set-up
\* lines 480-493: normalise the start URL, read the environment, emit `start`
Start ==
    /\ pc = "idle"
    /\ cleanStartUrl' = normalizeUrl(cfg.startUrl)
    /\ events' = sendProgress(events, "start", normalizeUrl(cfg.startUrl), MAX_PAGES)
    /\ pc' = "launch"
    /\ UNCHANGED <<helperVars, cfg, browser, discoverVars, loopVars, workers, returned>>

\* chromium.launch: resolves, or rejects and the call throws
Launch ==
    /\ pc = "launch"
    /\ \E ok \in BOOLEAN :
         IF ok THEN browser' = "open" /\ pc' = "newContext"
         ELSE browser' = browser /\ pc' = "aborted"
    /\ UNCHANGED <<helperVars, cfg, cleanStartUrl, discoverVars, loopVars, workers, events, returned>>

\* browser.newContext, outside the try block
NewContext ==
    /\ pc = "newContext"
    /\ \E ok \in BOOLEAN : pc' = IF ok THEN "route" ELSE "aborted"
    /\ UNCHANGED <<helperVars, cfg, browser, cleanStartUrl, discoverVars, loopVars, workers, events,
                   returned>>

\* context.route, outside the try block
Route ==
    /\ pc = "route"
    /\ \E ok \in BOOLEAN : pc' = IF ok THEN "discover" ELSE "aborted"
    /\ UNCHANGED <<helperVars, cfg, browser, cleanStartUrl, discoverVars, loopVars, workers, events,
                   returned>>

\* ------------------------------------------------------- discoverSitemapUrls
\* locs.forEach(loc => set.add(loc)) on an insertion-ordered Set
AddAll(set, locs) == Dedupe(set \o locs)

\* lines 134-136: normalise, keep the same-domain, not ignored ones
SitemapResult(locs, startUrl) ==
    LET normalized == [k \in 1..Len(locs) |-> normalizeUrl(locs[k])]
        keep(u) == u # Null /\ isSameDomain(startUrl, u) /\ ~shouldIgnoreUrl(u)
    IN SelectSeq(normalized, keep)

\* a fetchText call and what it returned: null (ok is FALSE) or the text
Fetched(url, ok) == [url |-> url, ok |-> ok]

\* faulty variant: a failed fetch throws out of discoverSitemapUrls
onFetchFailureThrow(at) == "aborted"

\* lines 75-78, 103, 121: fetchText returns null on any failure and the caller
\* goes on
onFetchFailure(at) == at

\* lines 98-116: `new URL(startUrl)` throws on a malformed start URL; otherwise
\* robots.txt is fetched (fetchText returns null on any failure) and the
\* candidates are its Sitemap: lines, or the two conventional paths
DiscoverRobots ==
    /\ pc = "discover"
    /\ IF Malformed(cleanStartUrl)
       THEN /\ pc' = "aborted"
            /\ UNCHANGED discoverVars
       ELSE \E robots \in {"null", "noSitemapLine", "sitemapLines"} :
              LET fromRobots == IF robots = "sitemapLines"
                                THEN RobotsSitemaps(cfg.hugeSitemap)
                                ELSE <<>>
                  cands == IF fromRobots = <<>>
                           THEN <<"/sitemap.xml", "/sitemap_index.xml">>
                           ELSE fromRobots
              IN /\ sitemapCandidates' = Range(cands)
                 /\ toFetch' = cands
                 /\ discovered' = <<>>
                 /\ fetchLog' = <<Fetched("/robots.txt", robots # "null")>>
                 /\ pc' = IF robots = "null" THEN onFetchFailure("discoverLoop")
                          ELSE "discoverLoop"
    /\ UNCHANGED <<helperVars, cfg, browser, cleanStartUrl, loopVars, workers, events, returned>>

\* lines 118-132: one iteration of the while loop
DiscoverFetch ==
    /\ pc = "discoverLoop"
    /\ Len(toFetch) > 0 /\ Len(discovered) < SITEMAP_CAP
    /\ LET sitemapUrl == Head(toFetch)
       IN \E fetched \in BOOLEAN :
            /\ fetchLog' = Append(fetchLog, Fetched(sitemapUrl, fetched /\ SitemapExists(sitemapUrl)))
            /\ IF ~(fetched /\ SitemapExists(sitemapUrl))
               THEN /\ toFetch' = Tail(toFetch)
                    /\ pc' = onFetchFailure(pc)
                    /\ UNCHANGED <<sitemapCandidates, discovered>>
               ELSE LET fresh == SelectSeq(Dedupe(SitemapChildrenOf(sitemapUrl)),
                                           LAMBDA c : c \notin sitemapCandidates)
                    IN /\ discovered' = AddAll(discovered, SitemapUrlsOf(sitemapUrl))
                       /\ sitemapCandidates' = sitemapCandidates \cup Range(fresh)
                       /\ toFetch' = Tail(toFetch) \o fresh
                       /\ pc' = pc
    /\ UNCHANGED <<helperVars, cfg, browser, cleanStartUrl, loopVars, workers, events, returned>>

\* lines 134-136 and 516-523: the loop is over and discoverSitemapUrls returns
\* (its locals are gone); seed the depth-0 frontier
DiscoverDone ==
    /\ pc = "discoverLoop"
    /\ ~(Len(toFetch) > 0 /\ Len(discovered) < SITEMAP_CAP)
    /\ visited' = {}
    /\ scrapedPages' = <<>>
    /\ currentDepthUrls' = <<cleanStartUrl>> \o SitemapResult(discovered, cleanStartUrl)
    /\ totalLinksFound' = 0
    /\ depth' = 0
    /\ sitemapCandidates' = {}
    /\ toFetch' = <<>>
    /\ discovered' = <<>>
    /\ fetchLog' = <<>>
    /\ pc' = "loop"
    /\ UNCHANGED <<helperVars, cfg, browser, cleanStartUrl, urlsToScrape, i, nextDepthLinks,
                   dispatched, workers, events, returned>>

\* ------------------------------------------------ scrapeClinicWebsite: the loop
RECURSIVE FilterFrontierNoVisitedFrom(_, _, _)
FilterFrontierNoVisitedFrom(urls, kept, vis) ==
    IF urls = <<>> THEN [kept |-> kept, visited |-> vis]
    ELSE LET normalized == normalizeUrl(Head(urls))
         IN IF normalized = Null \/ shouldIgnoreUrl(normalized)
            THEN FilterFrontierNoVisitedFrom(Tail(urls), kept, vis)
            ELSE FilterFrontierNoVisitedFrom(Tail(urls), Append(kept, Head(urls)),
                                             vis \cup {normalized})

\* faulty variant: the filter does not consult the visited set
FilterFrontierNoVisited(urls, vis) == FilterFrontierNoVisitedFrom(urls, <<>>, vis)

RECURSIVE FilterFrontierFrom(_, _, _)
\* lines 530-535: the filter callback, applied left to right; it adds every URL
\* it keeps to `visited`
FilterFrontierFrom(urls, kept, vis) ==
    IF urls = <<>> THEN [kept |-> kept, visited |-> vis]
    ELSE LET normalized == normalizeUrl(Head(urls))
         IN IF normalized = Null \/ normalized \in vis \/ shouldIgnoreUrl(normalized)
            THEN FilterFrontierFrom(Tail(urls), kept, vis)
            ELSE FilterFrontierFrom(Tail(urls), Append(kept, Head(urls)),
                                    vis \cup {normalized})

\* lines 529-535: currentDepthUrls.filter(...): the kept URLs and the new visited set
FilterFrontier(urls, vis) == FilterFrontierFrom(urls, <<>>, vis)

\* faulty variant: the page budget does not truncate the depth's URLs
BudgetSliceNone(kept, maxPagesCap, nScraped) == kept

\* line 536: .slice(0, MAX_PAGES - scrapedPages.length)
BudgetSlice(kept, maxPagesCap, nScraped) == Slice(kept, 0, maxPagesCap - nScraped)

\* line 528: the for loop's condition
LoopCondition(d, maxDepth, nScraped, maxPagesCap) == d <= maxDepth /\ nScraped < maxPagesCap

\* lines 528-543: the loop head up to the first batch
LoopHead ==
    /\ pc = "loop"
    /\ IF ~LoopCondition(depth, cfg.maxDepth, Len(scrapedPages), MAX_PAGES)
       THEN /\ pc' = "finally"
            /\ UNCHANGED <<visited, urlsToScrape, i, nextDepthLinks, events>>
       ELSE LET f == FilterFrontier(currentDepthUrls, visited)
                toScrape == BudgetSlice(f.kept, MAX_PAGES, Len(scrapedPages))
            IN /\ visited' = f.visited
               /\ urlsToScrape' = toScrape
               /\ IF Len(toScrape) = 0
                  THEN /\ pc' = "finally"
                       /\ UNCHANGED <<i, nextDepthLinks, events>>
                  ELSE /\ events' = sendProgress(events, "depth", Null, depth)
                       /\ nextDepthLinks' = <<>>
                       /\ i' = 0
                       /\ pc' = "batch"
    /\ UNCHANGED <<helperVars, cfg, browser, cleanStartUrl, discoverVars, scrapedPages,
                   currentDepthUrls, totalLinksFound, depth, dispatched, workers, returned>>

\* a scrapeSinglePage call that has run up to its first await
NewWorker(url) ==
    [url |-> url, pc |-> "newPage", attempt |-> 1, navs |-> <<>>, result |-> "none",
     links |-> <<>>]

\* faulty variant: the whole rest of the depth is dispatched at once
BatchOfRest(urls, from, concurrency) == Slice(urls, from, Len(urls))

\* line 547: urlsToScrape.slice(i, i + CONCURRENCY)
BatchOf(urls, from, concurrency) == Slice(urls, from, from + concurrency)

\* faulty variant: only the first URL of a batch is announced
SendScrapingFirst(log, batch, nScraped) ==
    IF batch = <<>> THEN log ELSE sendProgress(log, "scraping", Head(batch), nScraped)

RECURSIVE SendScraping(_, _, _)
\* lines 550-552
SendScraping(log, batch, nScraped) ==
    IF batch = <<>> THEN log
    ELSE SendScraping(sendProgress(log, "scraping", Head(batch), nScraped), Tail(batch),
                      nScraped)

\* lines 546-556: take the next batch, announce it, start its workers
BatchStart ==
    /\ pc = "batch"
    /\ i < Len(urlsToScrape)
    /\ LET batch == BatchOf(urlsToScrape, i, CONCURRENCY)
       IN /\ events' = SendScraping(events, batch, Len(scrapedPages))
          /\ workers' = [k \in 1..Len(batch) |-> NewWorker(batch[k])]
          /\ dispatched' = dispatched \o
                 [k \in 1..Len(batch) |-> [url |-> batch[k], depth |-> depth,
                                           folded |-> FALSE]]
    /\ pc' = "await"
    /\ UNCHANGED <<helperVars, cfg, browser, cleanStartUrl, discoverVars, visited, scrapedPages,
                   currentDepthUrls, totalLinksFound, depth, urlsToScrape, i,
                   nextDepthLinks, returned>>

\* faulty variant: the links keep the order they were found in
PrioritySortNone(urls) == urls

\* lines 583-587: stable sort, priority matches first
PrioritySort(urls) ==
    SelectSeq(urls, isPriority) \o SelectSeq(urls, LAMBDA u : ~isPriority(u))

\* lines 581-587: the next depth's frontier
NextFrontier(links, vis) ==
    PrioritySort(SelectSeq(Dedupe(links), LAMBDA u : u \notin vis))

\* lines 546, 581-588: the batches are done; build the next frontier, depth++;
\* nextDepthLinks, a const of the loop body, goes out of scope
DepthEnd ==
    /\ pc = "batch"
    /\ ~(i < Len(urlsToScrape))
    /\ currentDepthUrls' = NextFrontier(nextDepthLinks, visited)
    /\ depth' = depth + 1
    /\ nextDepthLinks' = <<>>
    /\ pc' = "loop"
    /\ UNCHANGED <<helperVars, cfg, browser, cleanStartUrl, discoverVars, visited, scrapedPages,
                   totalLinksFound, urlsToScrape, i, dispatched, workers, events,
                   returned>>

\* ----------------------------------------------------------- scrapeSinglePage
\* lines 443-455: the hrefs of each page of the site as scrapeSinglePage reads
\* them: nav links first, then all anchors, de-duplicated as raw hrefs, each
\* normalised
NormalizedLinks ==
    [p \in SitePaths |->
        LET combinedLinks == Dedupe(SiteNav(p) \o SiteAll(p))
        IN [k \in 1..Len(combinedLinks) |-> normalizeUrl(combinedLinks[k])]]

\* lines 454-456: the links a page returns: the non-null, same-domain ones
PageLinks(url, startUrl) ==
    SelectSeq(NormalizedLinks[url.path],
              LAMBDA href : href # Null /\ isSameDomain(startUrl, href))

\* line 291: timeout: attempt === 1 ? navTimeoutMs : navTimeoutMs * 2
NavTimeout(attempt) == IF attempt = 1 THEN NAV_TIMEOUT_MS ELSE NAV_TIMEOUT_MS * 2

\* faulty variant: every failed first attempt is retried
RetryAfterAnyFailure(attempt, outcome) == attempt = 1 /\ outcome # "ok"

\* line 462: the catch block falls through to the next attempt
RetryAfter(attempt, outcome) == attempt = 1 /\ outcome = "timeout"

InFlight(w) == w.pc \notin {"returned", "threw"}

\* faulty variant: the call pushes its own page onto scrapedPages
WNewPagePushes(k) ==
    /\ k \in 1..Len(workers)
    /\ workers[k].pc = "newPage"
    /\ \E ok \in BOOLEAN :
         workers' = [workers EXCEPT ![k].pc = IF ok THEN "goto" ELSE "threw"]
    /\ scrapedPages' = Append(scrapedPages, [url |-> workers[k].url])
    /\ UNCHANGED <<helperVars, cfg, pc, browser, cleanStartUrl, discoverVars, visited,
                   currentDepthUrls, totalLinksFound, depth, urlsToScrape, i,
                   nextDepthLinks, dispatched, events, returned>>

\* line 286: context.newPage(), outside the try block: a rejection leaves
\* scrapeSinglePage as an exception
WNewPage(k) ==
    /\ k \in 1..Len(workers)
    /\ workers[k].pc = "newPage"
    /\ \E ok \in BOOLEAN :
         workers' = [workers EXCEPT ![k].pc = IF ok THEN "goto" ELSE "threw"]
    /\ UNCHANGED <<helperVars, cfg, pc, browser, cleanStartUrl, discoverVars, loopVars, events,
                   returned>>

\* lines 287-464: the try block (goto, render wait, snapshot, extraction) and the
\* catch block.  outcome: "ok", "timeout" (a timeout-classified error), "error"
WGoto(k) ==
    /\ k \in 1..Len(workers)
    /\ workers[k].pc = "goto"
    /\ \E outcome \in {"ok", "timeout", "error"} :
         LET w == workers[k]
             nav == [timeout |-> NavTimeout(w.attempt), outcome |-> outcome]
             result == IF outcome = "ok" THEN "page"
                       ELSE IF RetryAfter(w.attempt, outcome) THEN "none"
                       ELSE "null"
         IN workers' = [workers EXCEPT
                ![k] = [w EXCEPT !.pc = "close",
                                 !.navs = Append(w.navs, nav),
                                 !.result = result,
                                 !.links = IF outcome = "ok"
                                           THEN PageLinks(w.url, cleanStartUrl)
                                           ELSE <<>>]]
    /\ UNCHANGED <<helperVars, cfg, pc, browser, cleanStartUrl, discoverVars, loopVars, events,
                   returned>>

\* lines 465-469: finally { await page.close() }, then the pending return, or
\* the next attempt, or the return null after the loop; a rejection of
\* page.close() replaces the pending return by an exception
WClose(k) ==
    /\ k \in 1..Len(workers)
    /\ workers[k].pc = "close"
    /\ \E ok \in BOOLEAN :
         LET w == workers[k]
         IN workers' = [workers EXCEPT
                ![k] = IF ~ok THEN [w EXCEPT !.pc = "threw"]
                       ELSE IF w.result # "none" THEN [w EXCEPT !.pc = "returned"]
                       ELSE IF w.attempt < 2
                            THEN [w EXCEPT !.pc = "newPage", !.attempt = w.attempt + 1]
                       ELSE [w EXCEPT !.pc = "returned", !.result = "null"]]
    /\ UNCHANGED <<helperVars, cfg, pc, browser, cleanStartUrl, discoverVars, loopVars, events,
                   returned>>

\* ------------------------------------------ scrapeClinicWebsite: Promise.all
\* faulty variant: the await resolves with the first call that returns
BatchSettledAny(ws) == \E k \in 1..Len(ws) : ws[k].pc = "returned"

\* faulty variant: the await resolves only when every call returned a page
BatchSettledPagesOnly(ws) ==
    \A k \in 1..Len(ws) : ws[k].pc = "returned" /\ ws[k].result = "page"

\* Promise.all resolves once every call of the batch has returned
BatchSettled(ws) == \A k \in 1..Len(ws) : ws[k].pc = "returned"

\* faulty variant: a null result rejects the batch like an exception
BatchRejectedOnFailure(ws) ==
    \E k \in 1..Len(ws) : ws[k].pc = "threw" \/ (ws[k].pc = "returned" /\ ws[k].result = "null")

\* Promise.all rejects as soon as one call has thrown
BatchRejected(ws) == \E k \in 1..Len(ws) : ws[k].pc = "threw"

\* faulty variant: off by one, links are followed at the last depth too
FollowLinksAlways(d, maxDepth) == d <= maxDepth

\* line 562: if (depth < maxDepth)
FollowLinks(d, maxDepth) == d < maxDepth

RECURSIVE FoldResults(_, _, _)
\* lines 558-578: results.forEach, in batch order
FoldResults(ws, k, acc) ==
    IF k > Len(ws) THEN acc
    ELSE LET w == ws[k]
             pages == Append(acc.pages, [url |-> w.url])
             total == acc.total + Len(w.links)
         IN IF w.result = "page"
            THEN FoldResults(ws, k + 1,
                   [pages |-> pages,
                    total |-> total,
                    links |-> IF FollowLinks(depth, cfg.maxDepth)
                              THEN acc.links \o w.links ELSE acc.links,
                    events |-> sendProgress(acc.events, "page_done", w.url, Len(pages))])
            ELSE FoldResults(ws, k + 1,
                   [acc EXCEPT !.events =
                        sendProgress(acc.events, "page_error", w.url, Len(acc.pages))])

\* lines 554-579: the await resolves; fold the batch in; i += CONCURRENCY
AwaitResolve ==
    /\ pc = "await"
    /\ BatchSettled(workers)
    /\ LET acc == FoldResults(workers, 1,
                     [pages |-> scrapedPages, total |-> totalLinksFound,
                      links |-> nextDepthLinks, events |-> events])
           base == Len(dispatched) - Len(workers)
       IN /\ scrapedPages' = acc.pages
          /\ totalLinksFound' = acc.total
          /\ nextDepthLinks' = acc.links
          /\ events' = acc.events
          /\ dispatched' = [j \in 1..Len(dispatched) |->
                 IF j > base /\ workers[j - base].pc = "returned"
                 THEN [dispatched[j] EXCEPT !.folded = TRUE]
                 ELSE dispatched[j]]
    /\ i' = i + CONCURRENCY
    /\ workers' = <<>>
    /\ pc' = "batch"
    /\ UNCHANGED <<helperVars, cfg, browser, cleanStartUrl, discoverVars, visited, currentDepthUrls,
                   depth, urlsToScrape, returned>>

\* line 554: the await throws; control leaves the try block through finally
AwaitReject ==
    /\ pc = "await"
    /\ BatchRejected(workers)
    /\ pc' = "finallyThrow"
    /\ UNCHANGED <<helperVars, cfg, browser, cleanStartUrl, discoverVars, loopVars, workers, events,
                   returned>>

\* lines 589-599: browser.close(), scrape_complete, return scrapedPages
Complete ==
    /\ pc = "finally"
    /\ browser' = "closed"
    /\ events' = sendProgress(events, "scrape_complete", Null, Len(scrapedPages))
    /\ returned' = scrapedPages
    /\ pc' = "completed"
    /\ UNCHANGED <<helperVars, cfg, cleanStartUrl, discoverVars, loopVars, workers>>

\* lines 589-591: browser.close(), then the exception propagates to the caller
Abort ==
    /\ pc = "finallyThrow"
    /\ browser' = "closed"
    /\ pc' = "aborted"
    /\ UNCHANGED <<helperVars, cfg, cleanStartUrl, discoverVars, loopVars, workers, events, returned>>

\* ------------------------------------------------------------ specification
Controller ==
    \/ Start
    \/ Launch
    \/ NewContext
    \/ Route
    \/ DiscoverRobots
    \/ DiscoverFetch
    \/ DiscoverDone
    \/ LoopHead
    \/ BatchStart
    \/ DepthEnd
    \/ AwaitResolve
    \/ AwaitReject
    \/ Complete
    \/ Abort

Worker(k) ==
    \/ WNewPage(k)
    \/ WGoto(k)
    \/ WClose(k)

Next ==
    \/ Controller
    \/ \E k \in 1..DEFAULT_CONCURRENCY + MaxEnvConcurrency : Worker(k)

Spec == Init /\ [][Next]_vars

\* every awaited operation eventually settles and the event loop runs a
\* continuation that is ready: the run does not stop while a step is possible
SpecFair == Spec /\ WF_vars(Next)

\* a call on a site whose robots.txt may name the sitemap of HugeLocs
SitemapInit ==
    /\ PureOff
    /\ UrlOff
    /\ ExtractOff
    /\ \E c \in [startUrl : StartUrls,
                 maxDepth : {0, 1},
                 maxPages : {1, 2},
                 envConcurrency : {0},
                 envMaxPages : {0},
                 hugeSitemap : BOOLEAN] : CrawlOff(c)

\* scrapeClinicWebsite up to the return of discoverSitemapUrls (line 518)
SitemapNext ==
    \/ Start
    \/ Launch
    \/ NewContext
    \/ Route
    \/ DiscoverRobots
    \/ DiscoverFetch
    \/ DiscoverDone

SpecSitemap == SitemapInit /\ [][SitemapNext]_vars

\* calls whose start URL may match one of IGNORE_PATTERNS
IgnoredStartInit ==
    /\ PureOff
    /\ UrlOff
    /\ ExtractOff
    /\ \E c \in [startUrl : {SFrag("/"), SFrag("/blog")},
                 maxDepth : {0, 1},
                 maxPages : {1, 2},
                 envConcurrency : {0},
                 envMaxPages : {0},
                 hugeSitemap : {FALSE}] : CrawlOff(c)

SpecIgnoredStart == IgnoredStartInit /\ [][Next]_vars

\* ------------------------------------------------------------ the URL helpers
\* the query strings of at most MaxQueryLen parameters
Queries == UNION {[1..n -> QueryParams] : n \in 0..MaxQueryLen}

\* the hrefs the helpers are applied to
Hrefs ==
    {Href(sch, h, "/a", q, f) :
        sch \in {"http", "https"}, h \in {"site", "ext"}, q \in Queries, f \in BOOLEAN}
    \cup {Bad}

CrawlCfgOff ==
    [startUrl |-> SFrag("/"), maxDepth |-> 0, maxPages |-> 1, envConcurrency |-> 0,
     envMaxPages |-> 0, hugeSitemap |-> FALSE]

UrlInit ==
    /\ PureOff
    /\ CrawlOff(CrawlCfgOff)
    /\ ExtractOff
    /\ urlPc = "input"
    /\ hrefA \in Hrefs
    /\ hrefB \in Hrefs
    /\ sameAB = FALSE
    /\ normA = Null
    /\ normB = Null
    /\ renormA = Null

\* lines 454-455 and 136: a link is kept when isSameDomain(cleanStartUrl, link)
UrlSameDomain ==
    /\ urlPc = "input"
    /\ sameAB' = isSameDomain(hrefA, hrefB)
    /\ urlPc' = "compared"
    /\ UNCHANGED <<crawlVars, extractVars, pureVars, hrefA, hrefB, normA, normB, renormA>>

\* lines 135 and 452: every href found is normalised
UrlNormalize ==
    /\ urlPc = "compared"
    /\ normA' = normalizeUrl(hrefA)
    /\ normB' = normalizeUrl(hrefB)
    /\ urlPc' = "normalized"
    /\ UNCHANGED <<crawlVars, extractVars, pureVars, hrefA, hrefB, sameAB, renormA>>

\* line 531: a frontier URL, the result of normalizeUrl, is normalised again
UrlRenormalize ==
    /\ urlPc = "normalized"
    /\ normA # Null
    /\ renormA' = normalizeUrl(normA)
    /\ urlPc' = "renormalized"
    /\ UNCHANGED <<crawlVars, extractVars, pureVars, hrefA, hrefB, sameAB, normA, normB>>

UrlNext ==
    \/ UrlSameDomain
    \/ UrlNormalize
    \/ UrlRenormalize

SpecUrl == UrlInit /\ [][UrlNext]_vars

\* ------------------------------------------------------ the extraction stage
\* JavaScript's null or undefined, also a property an object does not have
Nil == "<nil>"

Truthy(v) == v \notin {Nil, ""}

\* faulty variant: the second operand wins when it is non-empty
OrSecond(a, b) == IF Truthy(b) THEN b ELSE a

\* a || b
Or(a, b) == IF Truthy(a) THEN a ELSE b

\* a value that may be an array: NotArray is anything Array.isArray rejects
NotArray == [isArray |-> FALSE, items |-> <<>>]
Arr(items) == [isArray |-> TRUE, items |-> items]

\* Array.isArray(v) ? v : []
arrayOrEmpty(v) == IF v.isArray THEN v.items ELSE <<>>

\* (name || '').toLowerCase().trim()
NameKey(name) ==
    CASE name \in {"Haircut", "HAIRCUT", " haircut "} -> "haircut"
      [] name = "Beard Trim" -> "beard trim"
      [] name = "Dr. Novak" -> "dr. novak"
      [] name = "Dr. Kral" -> "dr. kral"
      [] name \in {Nil, "", " "} -> ""
      [] OTHER -> name

Service(name, price, category, description) ==
    [name |-> name, price |-> price, category |-> category, description |-> description]

Doctor(name, specialization) == [name |-> name, specialization |-> specialization]

\* lines 333-342: addService, on the pair of `seen` and `merged`
addService(acc, svc) ==
    LET key == NameKey(svc.name)
    IN IF key = "" \/ key \in acc.seen THEN acc
       ELSE [seen |-> acc.seen \cup {key},
             merged |-> Append(acc.merged,
                               Service(Or(svc.name, ""), Or(svc.price, ""),
                                       Or(svc.category, ""), Nil))]

\* lines 359-367: addDoctor
addDoctor(acc, doc) ==
    LET key == NameKey(doc.name)
    IN IF key = "" \/ key \in acc.seen THEN acc
       ELSE [seen |-> acc.seen \cup {key},
             merged |-> Append(acc.merged,
                               Doctor(Or(doc.name, ""), Or(doc.specialization, "")))]

\* list.forEach(addService), list.forEach(addDoctor)
RECURSIVE forEachAddService(_, _)
forEachAddService(list, acc) ==
    IF list = <<>> THEN acc
    ELSE forEachAddService(Tail(list), addService(acc, Head(list)))

RECURSIVE forEachAddDoctor(_, _)
forEachAddDoctor(list, acc) ==
    IF list = <<>> THEN acc
    ELSE forEachAddDoctor(Tail(list), addDoctor(acc, Head(list)))

NothingSeen == [seen |-> {}, merged |-> <<>>]

\* faulty variant: the pattern draft's services are not added
mergedServicesLlmOnly(llm, regex) ==
    LET llmServices == arrayOrEmpty(llm.services)
        regexServices == arrayOrEmpty(regex.services)
    IN IF Len(llmServices) = 0 THEN Arr(regexServices)
       ELSE Arr(forEachAddService(llmServices, NothingSeen).merged)

\* lines 324-349
mergedServices(llm, regex) ==
    LET llmServices == arrayOrEmpty(llm.services)
        regexServices == arrayOrEmpty(regex.services)
    IN IF Len(llmServices) = 0 THEN Arr(regexServices)
       ELSE Arr(forEachAddService(regexServices,
                                  forEachAddService(llmServices, NothingSeen)).merged)

\* faulty variant: the pattern draft's doctors are added first
mergedDoctorsPatternFirst(llm, regex) ==
    Arr(forEachAddDoctor(arrayOrEmpty(llm.doctors),
                         forEachAddDoctor(arrayOrEmpty(regex.doctors), NothingSeen)).merged)

\* lines 352-373
mergedDoctors(llm, regex) ==
    Arr(forEachAddDoctor(arrayOrEmpty(regex.doctors),
                         forEachAddDoctor(arrayOrEmpty(llm.doctors), NothingSeen)).merged)

\* faulty variant: the FAQ of the pattern draft alone (regexData.faq || [])
mergedFaqPatternOnly(llm, regex) == Arr(arrayOrEmpty(regex.faq))

\* lines 376-380
mergedFaq(llm, regex) == Arr(arrayOrEmpty(llm.faq) \o arrayOrEmpty(regex.faq))

ScalarFields == {"clinic_name", "address", "phone", "email", "opening_hours"}

\* a profile or a draft; a draft has Nil or NotArray where it has no property
Data(scalars, services, doctors, faq, sourcePages, rawContent, free) ==
    [clinic_name |-> scalars["clinic_name"],
     address |-> scalars["address"],
     phone |-> scalars["phone"],
     email |-> scalars["email"],
     opening_hours |-> scalars["opening_hours"],
     services |-> services,
     doctors |-> doctors,
     faq |-> faq,
     source_pages |-> sourcePages,
     raw_content |-> rawContent,
     about |-> free.about,
     key_benefits |-> free.key_benefits,
     target_audience |-> free.target_audience,
     unique_approach |-> free.unique_approach,
     testimonials_summary |-> free.testimonials_summary,
     additional_info |-> free.additional_info]

FreeText(about, benefits, audience, approach, testimonials, info) ==
    [about |-> about, key_benefits |-> benefits, target_audience |-> audience,
     unique_approach |-> approach, testimonials_summary |-> testimonials,
     additional_info |-> info]

\* extractWithLLM returned null
NullData == [null |-> TRUE]

\* lines 382-400: the object mergeExtractedData builds
mergedObject(llm, regex) ==
    Data([f \in ScalarFields |-> Or(llm[f], regex[f])],
         mergedServices(llm, regex),
         mergedDoctors(llm, regex),
         mergedFaq(llm, regex),
         regex.source_pages,
         regex.raw_content,
         FreeText(Or(llm.about, ""),
                  Arr(arrayOrEmpty(llm.key_benefits)),
                  Or(llm.target_audience, ""),
                  Or(llm.unique_approach, ""),
                  Or(llm.testimonials_summary, ""),
                  Or(llm.additional_info, "")))

\* an LLM draft without any property
EmptyLlmData ==
    Data([f \in ScalarFields |-> Nil], NotArray, NotArray, NotArray, Nil, Nil,
         FreeText(Nil, NotArray, Nil, Nil, Nil, Nil))

\* faulty variant: a null LLM draft is merged like an empty one
mergeNullAsEmpty(llm, regex) ==
    mergedObject(IF llm = NullData THEN EmptyLlmData ELSE llm, regex)

\* lines 320-401
mergeExtractedData(llm, regex) ==
    IF llm = NullData THEN regex ELSE mergedObject(llm, regex)

\* ---- the drafts
\* the sequences over `items` of at most n elements
SeqsUpTo(items, n) == UNION {[1..k -> items] : k \in 0..n}

\* normalizeClinicData: the services extractServices finds have a name of more
\* than 3 characters, unique in lower case, a price and an empty description
PatternServices ==
    {Service("Haircut", "10", Nil, ""), Service("HAIRCUT", "12", Nil, ""),
     Service("Beard Trim", "10", Nil, ""), Service("Shave", "7", Nil, "")}

PatternServiceLists ==
    {l \in SeqsUpTo(PatternServices, MaxPatternItems) :
        \A j, k \in 1..Len(l) : j # k => NameKey(l[j].name) # NameKey(l[k].name)}

\* the rest of a pattern draft: the scalars and the doctors
PatternRest ==
    {[scalars |-> [f \in ScalarFields |-> ""], doctors |-> <<>>],
     [scalars |-> [f \in ScalarFields |-> "P"],
      doctors |-> <<Doctor("Dr. Novak", "ORL"), Doctor("Dr. Kral", "")>>],
     [scalars |-> [f \in ScalarFields |-> IF f \in {"phone", "email"} THEN "P" ELSE ""],
      doctors |-> <<Doctor("Dr. Kral", "ORL")>>]}

\* lines 303-314 of normalizer.js: faq is [], the free-text properties are absent
PatternDrafts ==
    {Data(r.scalars, Arr(l), Arr(r.doctors), Arr(<<>>), "pages", "raw",
          FreeText(Nil, NotArray, Nil, Nil, Nil, Nil)) :
        r \in PatternRest, l \in PatternServiceLists}

\* what the model may answer: any JSON object; a property may be null, a name
\* may repeat in another spelling
LlmServices ==
    {Service("Haircut", "20", "hair", Nil), Service(" haircut ", "25", Nil, Nil),
     Service("Dye", Nil, "hair", Nil), Service(Nil, "5", "misc", Nil),
     Service(" ", "6", Nil, Nil)}

LlmServiceValues == {NotArray} \cup {Arr(l) : l \in SeqsUpTo(LlmServices, MaxLlmItems)}

LlmRest ==
    {[scalars |-> [f \in ScalarFields |-> Nil], doctors |-> NotArray, faq |-> NotArray,
      free |-> FreeText(Nil, NotArray, Nil, Nil, Nil, Nil)],
     [scalars |-> [f \in ScalarFields |-> ""], doctors |-> Arr(<<>>), faq |-> Arr(<<>>),
      free |-> FreeText("", Arr(<<>>), "", "", "", "")],
     [scalars |-> [f \in ScalarFields |-> "L"],
      doctors |-> Arr(<<Doctor("Dr. Novak", "dermatology"), Doctor("Dr. Novak", Nil),
                        Doctor(Nil, "nurse")>>),
      faq |-> Arr(<<"q1", "q2">>),
      free |-> FreeText("A", Arr(<<"b1", "b2">>), "T", "U", "S", "I")],
     [scalars |-> [f \in ScalarFields |-> IF f \in {"clinic_name", "phone"} THEN "L" ELSE Nil],
      doctors |-> Arr(<<Doctor("Dr. Kral", Nil)>>), faq |-> NotArray,
      free |-> FreeText("A", NotArray, Nil, "U", "", Nil)],
     [scalars |-> [f \in ScalarFields |-> IF f = "address" THEN "L" ELSE ""],
      doctors |-> Arr(<<Doctor("", "nurse"), Doctor("Dr. Novak", "ORL")>>),
      faq |-> Arr(<<"q1">>),
      free |-> FreeText(Nil, Arr(<<"b1">>), "T", Nil, Nil, "I")]}

LlmDrafts ==
    {Data(r.scalars, sv, r.doctors, r.faq, Nil, Nil, r.free) :
        r \in LlmRest, sv \in LlmServiceValues}

\* ---- index.js, lines 252-276
ExtractInit ==
    /\ PureOff
    /\ CrawlOff(CrawlCfgOff)
    /\ UrlOff
    /\ extractPc = "scraped"
    /\ apiKey \in BOOLEAN
    /\ pagesLength \in 0..MaxScrapedPages
    /\ llmReply = "none"
    /\ regexData = NoData
    /\ llmData = NoData
    /\ clinicData = NoData

\* faulty variant: an empty crawl result goes on to the normalizer
noPagesNever(n) == FALSE

\* line 254: !pages || pages.length === 0
noPages(n) == n = 0

\* lines 252-258: scrapeClinicWebsite has returned; with no pages the handler
\* sends the error event and returns
CheckPages ==
    /\ extractPc = "scraped"
    /\ extractPc' = IF noPages(pagesLength) THEN "error" ELSE "pages"
    /\ UNCHANGED <<crawlVars, urlVars, pureVars, apiKey, pagesLength, llmReply, regexData, llmData,
                   clinicData>>

\* lines 261-264: const regexData = normalizeClinicData(...); let clinicData = regexData
Normalize ==
    /\ extractPc = "pages"
    /\ \E draft \in PatternDrafts :
         /\ regexData' = draft
         /\ clinicData' = draft
    /\ extractPc' = IF apiKey THEN "llm" ELSE "done"
    /\ UNCHANGED <<crawlVars, urlVars, pureVars, apiKey, pagesLength, llmReply, llmData>>

\* what the model's answer can be: the request rejects, the answer is not
\* JSON, or it parses
LlmReplies == {"rejected", "unparsable", "parsed"}

\* faulty variant: the exception leaves extractWithLLM and ends the handler in
\* its catch block
onLlmFailureThrow == [pc |-> "error", data |-> NoData]

\* part_002 lines 310-313: catch (error) { ...; return null; }
onLlmFailure == [pc |-> "merge", data |-> NullData]

\* line 266: extractWithLLM resolves with the parsed answer, or with null on
\* any request or parse failure
ExtractWithLLM ==
    /\ extractPc = "llm"
    /\ \E reply \in LlmReplies :
         /\ llmReply' = reply
         /\ IF reply = "parsed"
            THEN llmData' \in LlmDrafts /\ extractPc' = "merge"
            ELSE llmData' = onLlmFailure.data /\ extractPc' = onLlmFailure.pc
    /\ UNCHANGED <<crawlVars, urlVars, pureVars, apiKey, pagesLength, regexData, clinicData>>

\* lines 267-276: merge, then the welcome message and the complete event
Merge ==
    /\ extractPc = "merge"
    /\ clinicData' = mergeExtractedData(llmData, regexData)
    /\ extractPc' = "done"
    /\ UNCHANGED <<crawlVars, urlVars, pureVars, apiKey, pagesLength, llmReply, regexData, llmData>>

ExtractNext ==
    \/ CheckPages
    \/ Normalize
    \/ ExtractWithLLM
    \/ Merge

SpecExtract == ExtractInit /\ [][ExtractNext]_vars

\* ------------------------------------------------- extractWithLLM: the prompt
Min(a, b) == IF a < b THEN a ELSE b

\* the pages handed to extractWithLLM: `long` pages of LongLength characters
\* and the pages of `rest`, in one order or the other
PagesOf(long, rest, longFirst) ==
    LET longs == [k \in 1..long |-> LongLength]
        lens == IF longFirst THEN longs \o rest ELSE rest \o longs
    IN [k \in 1..Len(lens) |-> [id |-> k, len |-> lens[k]]]

PromptInit ==
    /\ PageOff
    /\ NormOff
    /\ CrawlOff(CrawlCfgOff)
    /\ UrlOff
    /\ ExtractOff
    /\ promptPc = "pages"
    /\ \E long \in 0..MaxLongPages, rest \in SeqsUpTo(OtherLengths, MaxOtherPages),
          longFirst \in BOOLEAN :
         pageData = PagesOf(long, rest, longFirst)
    /\ allPricesLength \in {0, 2}
    /\ sortedPages = <<>>
    /\ pageIndex = 0
    /\ contentChunks = <<>>
    /\ totalChars = 0
    /\ reached = <<>>

\* lines 254-256: [...pageData].sort by content length, longest first; the sort
\* is stable
SortByContentLength(pages) ==
    LET before(j, k) == pages[j].len > pages[k].len \/ (pages[j].len = pages[k].len /\ j < k)
        pos == [k \in 1..Len(pages) |-> 1 + Cardinality({j \in 1..Len(pages) : before(j, k)})]
    IN [n \in 1..Len(pages) |-> pages[CHOOSE k \in 1..Len(pages) : pos[k] = n]]

\* lines 254-260
PromptSort ==
    /\ promptPc = "pages"
    /\ sortedPages' = SortByContentLength(pageData)
    /\ contentChunks' = <<>>
    /\ totalChars' = 0
    /\ pageIndex' = 1
    /\ promptPc' = "loop"
    /\ UNCHANGED <<crawlVars, urlVars, extractVars, pageVars, normVars, pageData,
                   allPricesLength, reached>>

\* faulty variant: the slice does not look at the remaining budget
pageContentLengthUnbudgeted(len, remainingChars) == Min(len, MAX_PAGE_CHARS)

\* line 266: page.content?.slice(0, Math.min(remainingChars, 8000)) || ''
pageContentLength(len, remainingChars) == Min(len, Min(remainingChars, MAX_PAGE_CHARS))

\* lines 262-272: one iteration of the loop over sortedPages, or its end
PromptPage ==
    /\ promptPc = "loop"
    /\ IF pageIndex > Len(sortedPages) \/ totalChars >= maxTotalChars
       THEN /\ promptPc' = "prices"
            /\ UNCHANGED <<pageIndex, contentChunks, totalChars, reached>>
       ELSE LET page == sortedPages[pageIndex]
                remainingChars == maxTotalChars - totalChars
                pageContent == pageContentLength(page.len, remainingChars)
                kept == pageContent > MIN_PAGE_CHARS
            IN /\ contentChunks' =
                    IF kept
                    THEN Append(contentChunks,
                                [kind |-> "page", id |-> page.id, len |-> pageContent])
                    ELSE contentChunks
               /\ totalChars' = IF kept THEN totalChars + pageContent + HEADER_CHARS
                                ELSE totalChars
               /\ reached' = Append(reached,
                                [id |-> page.id, len |-> page.len,
                                 remaining |-> remainingChars,
                                 included |-> IF kept THEN pageContent ELSE 0])
               /\ pageIndex' = pageIndex + 1
               /\ promptPc' = "loop"
    /\ UNCHANGED <<crawlVars, urlVars, extractVars, pageVars, normVars, pageData,
                   allPricesLength, sortedPages>>

\* lines 275-280: the extracted prices go in as one more chunk
PromptPrices ==
    /\ promptPc = "prices"
    /\ contentChunks' =
         IF allPricesLength > 0 /\ totalChars < maxTotalChars
         THEN Append(contentChunks, [kind |-> "prices", id |-> 0, len |-> allPricesLength])
         ELSE contentChunks
    /\ promptPc' = "built"
    /\ UNCHANGED <<crawlVars, urlVars, extractVars, pageVars, normVars, pageData,
                   allPricesLength, sortedPages, pageIndex, totalChars, reached>>

PromptNext ==
    \/ PromptSort
    \/ PromptPage
    \/ PromptPrices

SpecPrompt == PromptInit /\ [][PromptNext]_vars

\* ------------------------------------------- extractPageData: the main text
\* lines 212-225: three of the eleven container selectors, in their order, and
\* the fallback
contentSelectors == <<"#__next main", "main", "article", "body">>

\* lengths of the clean text of a selection
TextLengths == {0, 80, 300, 600, 5000, 60000}

\* $(selector) of a page: no element, or elements whose clean text has `len`
\* characters
Selections == {[present |-> FALSE, len |-> 0]} \cup {[present |-> TRUE, len |-> n] : n \in TextLengths}

\* the pages: every document has a body
Doms ==
    {d \in [Range(contentSelectors) -> Selections] : d["body"].present}

PageInit ==
    /\ PromptOff
    /\ NormOff
    /\ CrawlOff(CrawlCfgOff)
    /\ UrlOff
    /\ ExtractOff
    /\ pagePc = "loaded"
    /\ dom \in Doms
    /\ content = NoText

\* lines 139-161: extractCleanText($, selector), as the text's origin and length
extractCleanText(d, selector) == [from |-> selector, len |-> d[selector].len]

\* faulty variant: no container ends the search
goodContentNever(text, selector) == FALSE

\* line 236: content.length > 500 && selector !== 'body'
goodContent(text, selector) == text.len > GOOD_CONTENT_CHARS /\ selector # "body"

RECURSIVE mainContentFrom(_, _, _)
\* lines 228-241: the loop over contentSelectors from the k-th on
mainContentFrom(d, k, mainContent) ==
    IF k > Len(contentSelectors) THEN mainContent
    ELSE LET selector == contentSelectors[k]
             text == extractCleanText(d, selector)
             longer == IF text.len > mainContent.len THEN text ELSE mainContent
         IN IF ~d[selector].present THEN mainContentFrom(d, k + 1, mainContent)
            ELSE IF goodContent(text, selector) THEN text
            ELSE mainContentFrom(d, k + 1, longer)

\* lines 227-246 and 272: the loop, the fallback to body, and the slice
pageContent(d) ==
    LET looped == mainContentFrom(d, 1, NoText)
        mainContent == IF looped.len < MIN_CONTENT_CHARS
                       THEN extractCleanText(d, "body") ELSE looped
    IN [mainContent EXCEPT !.len = Min(@, MAX_CONTENT_CHARS)]

\* lines 206-281: extractPageData, its content field
ExtractPageData ==
    /\ pagePc = "loaded"
    /\ content' = pageContent(dom)
    /\ pagePc' = "extracted"
    /\ UNCHANGED <<crawlVars, urlVars, extractVars, promptVars, normVars, dom>>

PageNext == ExtractPageData

SpecPage == PageInit /\ [][PageNext]_vars

\* ------------------------------- normalizeClinicData: services and doctors
\* a price row or a pattern match: the lower-cased clean name, as a number, and
\* the length of the clean name
Candidate(key, len) == [key |-> key, len |-> len]

\* a match of doctorPattern: the lower-cased last name, as a number, and the
\* title it was written with
DoctorMatch(lastName, title) == [lastName |-> lastName, title |-> title]

\* pages that name n services and m doctors: the price rows list the services,
\* the first one twice, and a name of 3 characters; the patterns match the last
\* service again, one more service and a name of 4 characters; every doctor is
\* mentioned twice
MatchesOf(n, m) ==
    [prices |-> [k \in 1..n |-> Candidate(k, 10)]
                \o (IF n > 0 THEN <<Candidate(1, 10)>> ELSE <<>>) \o <<Candidate(0, 3)>>,
     patterns |-> <<Candidate(n, 10), Candidate(n + 1, 10), Candidate(-1, 4)>>,
     doctors |-> [k \in 1..m |-> DoctorMatch(k, "MUDr.")]
                 \o [k \in 1..m |-> DoctorMatch(k, "Dr.")]]

NormInit ==
    /\ PromptOff
    /\ PageOff
    /\ CrawlOff(CrawlCfgOff)
    /\ UrlOff
    /\ ExtractOff
    /\ normPc = "pages"
    /\ \E n \in 0..MaxServicesFound, m \in 0..MaxDoctorsFound : matches = MatchesOf(n, m)
    /\ patternDraft = <<>>

\* `if (!seenNames.has(key)) { seenNames.add(key); push }` over a list: the
\* first item of every key, in order
FirstOfKey(keys) ==
    LET first == {k \in 1..Len(keys) : \A j \in 1..(k - 1) : keys[j] # keys[k]}
        rank == [k \in first |-> Cardinality({j \in first : j <= k})]
    IN [n \in 1..Cardinality(first) |-> CHOOSE k \in first : rank[k] = n]

\* part_003 lines 62-116: the price rows with a clean name of more than 3 and
\* less than 150 characters, then the pattern matches with a name of more than
\* 4 and less than 100 characters, each name once; all of them are returned
extractServices(prices, patterns) ==
    LET named == SelectSeq(prices, LAMBDA c : c.len > 3 /\ c.len < 150)
                 \o SelectSeq(patterns, LAMBDA c : c.len > 4 /\ c.len < 100)
        firsts == FirstOfKey([k \in 1..Len(named) |-> named[k].key])
    IN [n \in 1..Len(firsts) |-> named[firsts[n]]]

\* part_003 lines 121-178: the matches, each last name once, and of these
\* doctors.slice(0, 30)
extractDoctors(doctorMatches) ==
    LET firsts == FirstOfKey([k \in 1..Len(doctorMatches) |-> doctorMatches[k].lastName])
        doctors == [n \in 1..Len(firsts) |-> doctorMatches[firsts[n]]]
    IN Slice(doctors, 0, DOCTORS_SLICE)

\* part_003 lines 298-310
NormalizeClinicData ==
    /\ normPc = "pages"
    /\ patternDraft' = [services |-> extractServices(matches.prices, matches.patterns),
                        doctors |-> extractDoctors(matches.doctors)]
    /\ normPc' = "normalized"
    /\ UNCHANGED <<crawlVars, urlVars, extractVars, promptVars, pageVars, matches>>

NormNext == NormalizeClinicData

SpecNormalizer == NormInit /\ [][NormNext]_vars

\* ------------------------------------------------------------------ properties
DispatchedUrls == {dispatched[k].url : k \in 1..Len(dispatched)}

EventsOf(type) == {k \in 1..Len(events) : events[k].type = type}

EventsFor(type, url) == {k \in EventsOf(type) : events[k].url = url}

NumInFlight == Cardinality({k \in 1..Len(workers) : InFlight(workers[k])})

\* C1: within one run no normalized URL is dispatched to a page-render worker
\* twice: the dispatched URLs are pairwise different after normalisation, and
\* every URL that is dispatched or selected for dispatch is already in visited.
C1_AtMostOnceDispatch ==
    /\ \A j, k \in 1..Len(dispatched) :
         j # k => normalizeUrl(dispatched[j].url) # normalizeUrl(dispatched[k].url)
    /\ \A k \in 1..Len(dispatched) : normalizeUrl(dispatched[k].url) \in visited
    /\ pc \in {"batch", "await"} =>
         \A k \in 1..Len(urlsToScrape) : normalizeUrl(urlsToScrape[k]) \in visited

\* C1 witness: a completed run in which the sitemap seeded the frontier (it
\* lists the start URL again, with a fragment), a sitemap-seeded URL (/b) was
\* dispatched at depth 0, and a page collected at depth 1 (/about) links back to
\* the already visited start URL and to /b.
C1_Witness ==
    /\ pc = "completed"
    /\ \E k \in 1..Len(dispatched) : dispatched[k] = [url |-> S("/b"), depth |-> 0,
                                                      folded |-> TRUE]
    /\ \E k \in 1..Len(dispatched) : dispatched[k] = [url |-> S("/about"), depth |-> 1,
                                                      folded |-> TRUE]
    /\ [url |-> S("/about")] \in Range(scrapedPages)

C3_DepthBound ==
    /\ \A k \in 1..Len(dispatched) : dispatched[k].depth <= cfg.maxDepth
    /\ depth >= cfg.maxDepth => nextDepthLinks = <<>>
    /\ depth > cfg.maxDepth => currentDepthUrls = <<>>

\* C3 witness: a page with same-site links was collected at depth maxDepth and
\* the loop ended on the depth bound with page budget left.
C3_Witness ==
    /\ pc = "completed"
    /\ depth = cfg.maxDepth + 1
    /\ Len(scrapedPages) < MAX_PAGES
    /\ \E k \in 1..Len(dispatched) :
         /\ dispatched[k].depth = cfg.maxDepth
         /\ [url |-> dispatched[k].url] \in Range(scrapedPages)
         /\ PageLinks(dispatched[k].url, cleanStartUrl) # <<>>

\* C4: when a URL of a deeper depth has been dispatched, every worker of every
\* shallower depth has returned and its result has been folded in.
C4_DepthBarrier ==
    \A j, k \in 1..Len(dispatched) :
        dispatched[j].depth < dispatched[k].depth => dispatched[j].folded

\* C4 witness: two workers of depth 0 ran in one batch and a worker of depth 1
\* is in flight.
C4_Witness ==
    /\ pc = "await"
    /\ depth = 1
    /\ NumInFlight > 0
    /\ Cardinality({k \in 1..Len(dispatched) : dispatched[k].depth = 0}) >= 2
    /\ CONCURRENCY >= 2

\* C5: at no time are more than CONCURRENCY page-render workers in flight.
C5_BoundedPool == NumInFlight <= CONCURRENCY

\* C5 witness: the pool is full while more URLs of the depth wait their turn.
C5_Witness ==
    /\ NumInFlight = CONCURRENCY
    /\ Len(urlsToScrape) > i + CONCURRENCY

\* C6: a page render makes at most two navigation attempts; the second is made
\* only after a timeout-classified failure of the first and uses twice the
\* navigation timeout; the render's verdict is a Page exactly when its last
\* attempt succeeded, a Failure (null) exactly when the first attempt failed
\* without a timeout or the second attempt failed, and is open only before the
\* first attempt and between a first timeout and the retry; a render that
\* returns has a verdict.
C6_RetryPolicy ==
    \A k \in 1..Len(workers) :
        LET w == workers[k]
            n == Len(w.navs)
        IN /\ n <= 2
           /\ w.attempt <= 2
           /\ n = 2 => w.navs[1].outcome = "timeout"
           /\ n >= 1 => w.navs[1].timeout = NAV_TIMEOUT_MS
           /\ n = 2 => w.navs[2].timeout = 2 * NAV_TIMEOUT_MS
           /\ w.result = "page" <=> (n >= 1 /\ w.navs[n].outcome = "ok")
           /\ w.result = "null" <=>
                \/ n = 1 /\ w.navs[1].outcome = "error"
                \/ n = 2 /\ w.navs[2].outcome # "ok"
           /\ w.result = "none" <=> (n = 0 \/ (n = 1 /\ w.navs[1].outcome = "timeout"))
           /\ w.pc = "returned" => w.result # "none"

\* C6 witness: a render whose first attempt timed out and whose second attempt
\* succeeded has returned a Page.
C6_Witness ==
    \E k \in 1..Len(workers) :
        /\ workers[k].pc = "returned"
        /\ workers[k].result = "page"
        /\ Len(workers[k].navs) = 2
        /\ workers[k].navs[1].outcome = "timeout"
        /\ workers[k].navs[2].outcome = "ok"

\* C7: a render that ends in a Failure does not halt the crawl: the run leaves
\* the loop by an exception only when a worker threw, never on a Failure; every
\* URL selected for a depth is dispatched; the loop ends only on its budgets or
\* on an empty frontier; and a completed run returns every collected page.
C7_FailureDoesNotHalt ==
    /\ (pc \in {"finallyThrow", "aborted"} /\ dispatched # <<>>) =>
         \E k \in 1..Len(workers) : workers[k].pc = "threw"
    /\ pc \in {"loop", "finally", "completed"} => Range(urlsToScrape) \subseteq DispatchedUrls
    /\ pc \in {"finally", "completed"} =>
         \/ ~LoopCondition(depth, cfg.maxDepth, Len(scrapedPages), MAX_PAGES)
         \/ urlsToScrape = <<>>
    /\ pc = "completed" =>
         /\ returned = scrapedPages
         /\ \A k \in EventsOf("page_done") : [url |-> events[k].url] \in Range(returned)
         /\ \A k \in EventsOf("page_error") : [url |-> events[k].url] \notin Range(returned)

\* C7 witness: a completed run in which a page was collected, then a render
\* failed, then a further URL was dispatched and collected, at a later depth too.
C7_Witness ==
    /\ pc = "completed"
    /\ \E a, b, c, d \in 1..Len(events) :
         /\ a < b /\ b < c /\ c < d
         /\ events[a].type = "page_done"
         /\ events[b].type = "page_error"
         /\ events[c].type = "scraping"
         /\ events[d].type = "page_done"
         /\ events[d].url = events[c].url
    /\ \E j, k \in 1..Len(dispatched) :
         /\ dispatched[j].depth < dispatched[k].depth
         /\ [url |-> dispatched[j].url] \notin Range(returned)
         /\ [url |-> dispatched[k].url] \in Range(returned)

\* C8 as stated: a run ends in Aborted only on an initialization failure, never
\* once a URL has been dispatched.
C8_AbortOnlyOnInit == pc = "aborted" => dispatched = <<>>

\* C9 as stated: the progress events follow the protocol: start is the first
\* event and occurs once; every depth that dispatches has one depth event, ahead
\* of its scraping events; every dispatched URL has one scraping event and
\* afterwards, by the end of the run, exactly one of page_done (page collected)
\* or page_error; scrape_complete occurs once, last, when the run completes.
C9_EventProtocol ==
    /\ pc # "idle" => (events # <<>> /\ events[1].type = "start")
    /\ Cardinality(EventsOf("start")) <= 1
    /\ \A a, b \in EventsOf("depth") : events[a].n = events[b].n => a = b
    /\ \A a \in EventsOf("depth") :
         \/ \E j \in 1..Len(dispatched) : dispatched[j].depth = events[a].n
         \/ (pc = "batch" /\ events[a].n = depth /\ a = Len(events))
    /\ \A a \in EventsOf("scraping") : events[a].url \in DispatchedUrls
    /\ \A j \in 1..Len(dispatched) :
         LET url == dispatched[j].url
             done == EventsFor("page_done", url)
             error == EventsFor("page_error", url)
         IN /\ Cardinality(EventsFor("scraping", url)) = 1
            /\ \E a \in EventsOf("depth") :
                 /\ events[a].n = dispatched[j].depth
                 /\ \A b \in EventsFor("scraping", url) : a < b
            /\ Cardinality(done \cup error) <= 1
            /\ \A b \in done \cup error : \A a \in EventsFor("scraping", url) : a < b
            /\ done # {} <=> [url |-> url] \in Range(scrapedPages)
            /\ pc \in {"completed", "aborted"} => Cardinality(done \cup error) = 1
    /\ Cardinality(EventsOf("scrape_complete")) <= 1
    /\ pc = "completed" <=> EventsOf("scrape_complete") # {}
    /\ pc = "completed" => events[Len(events)].type = "scrape_complete"

C16_Idempotent == urlPc = "renormalized" => renormA = normA

C16_Witness ==
    /\ urlPc = "renormalized"
    /\ hrefA.frag
    /\ hrefA.query = <<"gclid", "id">>
    /\ renormA = Href(hrefA.scheme, hrefA.host, hrefA.path, <<"id">>, FALSE)

\* b is a with one tracking parameter put into its query string
OneTrackingParamMore(a, b) ==
    /\ [a EXCEPT !.query = <<>>] = [b EXCEPT !.query = <<>>]
    /\ \E k \in 1..Len(b.query) :
         /\ b.query[k] \in TRACKING_PARAMS
         /\ a.query = SubSeq(b.query, 1, k - 1) \o SubSeq(b.query, k + 1, Len(b.query))

\* a and b are identical except for the fragment
OtherFragment(a, b) == a.frag # b.frag /\ [a EXCEPT !.frag = FALSE] = [b EXCEPT !.frag = FALSE]

\* C17: two URLs that are identical except for the fragment, or except for one
\* known tracking query parameter, normalize to the same URL.
C17_SameNormalForm ==
    /\ urlPc \in {"normalized", "renormalized"}
    /\ ~Malformed(hrefA) /\ ~Malformed(hrefB)
    /\ \/ OtherFragment(hrefA, hrefB)
       \/ OneTrackingParamMore(hrefA, hrefB)
       \/ OneTrackingParamMore(hrefB, hrefA)
    => normA = normB /\ normA # Null

C17_Witness ==
    /\ urlPc = "normalized"
    /\ hrefA.frag /\ ~hrefB.frag
    /\ hrefA.query = <<"id", "utm_source">>
    /\ hrefB.query = hrefA.query
    /\ OtherFragment(hrefA, hrefB)
    /\ normA = normB

\* C18 as stated: sameOrigin(a, b) is true exactly when a and b have the same
\* scheme and the same host.
C18_SchemeAndHost ==
    urlPc # "input" /\ ~Malformed(hrefA) /\ ~Malformed(hrefB)
    => (sameAB <=> (hrefA.scheme = hrefB.scheme /\ hrefA.host = hrefB.host))

\* C18, amended: isSameDomain(a, b) is true exactly when both parse and have
\* the same host name; the scheme is not compared, so two URLs with the same
\* host and different schemes are in the same domain; path, query and
\* fragment are not compared either.
C18_HostOnly ==
    urlPc # "input" =>
      (sameAB <=> (~Malformed(hrefA) /\ ~Malformed(hrefB) /\ hrefA.host = hrefB.host))

C18_Witness ==
    /\ urlPc = "compared"
    /\ hrefA.scheme = "http" /\ hrefB.scheme = "https"
    /\ hrefA.host = "site" /\ hrefB.host = "site"
    /\ hrefA.query # hrefB.query
    /\ sameAB

\* ---- the profile merger
MergeDone == extractPc = "done" /\ llmData # NoData

LlmGiven == MergeDone /\ llmData # NullData

\* C11: merge(patternDraft, null) returns patternDraft unchanged: every field
\* of the result equals the field of the pattern draft and no field is added,
\* removed or rewritten.
C11_IdentityOnNull == MergeDone /\ llmData = NullData => clinicData = regexData

C11_Witness ==
    /\ MergeDone
    /\ llmData = NullData
    /\ Len(regexData.services.items) = 2
    /\ regexData.phone = "P"
    /\ clinicData.about = Nil
    /\ clinicData.services = regexData.services

\* the normalized names of a list of services or doctors
KeysOf(list) == {NameKey(list[k].name) : k \in 1..Len(list)}

\* the services of the LLM draft (none when the draft is null or has no list)
LlmServiceList == IF llmData = NullData THEN <<>> ELSE arrayOrEmpty(llmData.services)

\* every service of the pattern draft whose normalized name no service of the
\* LLM draft has is in the merged list, with its name and price
PatternOnlyKept ==
    \A k \in 1..Len(regexData.services.items) :
      LET svc == regexData.services.items[k]
      IN NameKey(svc.name) \notin KeysOf(LlmServiceList) =>
           \E j \in 1..Len(clinicData.services.items) :
             /\ clinicData.services.items[j].name = svc.name
             /\ clinicData.services.items[j].price = svc.price

\* C12 as stated: no pattern-only service is lost, and the merged list is at
\* least as long as the LLM list with one item kept per normalized name.
C12_NoPatternItemLost ==
    MergeDone =>
      /\ PatternOnlyKept
      /\ Len(clinicData.services.items) >= Cardinality(KeysOf(LlmServiceList))

\* C12, amended: no pattern-only service is lost, and the merged list is at
\* least as long as the LLM list with one item kept per non-empty normalized
\* name (an LLM item whose name is null, empty or blank is not merged in).
C12_NoNamedItemLost ==
    MergeDone =>
      /\ PatternOnlyKept
      /\ Len(clinicData.services.items) >= Cardinality(KeysOf(LlmServiceList) \ {""})

C12_Witness ==
    /\ LlmGiven
    /\ Len(LlmServiceList) = 2
    /\ KeysOf(LlmServiceList) = {"haircut", ""}
    /\ KeysOf(regexData.services.items) = {"haircut", "beard trim"}
    /\ Len(clinicData.services.items) = 2
    /\ clinicData.services.items[2].name = "Beard Trim"

\* C13: with an LLM draft, each scalar field of the profile is the LLM
\* draft's value when that value is non-empty and the pattern draft's value
\* otherwise.
C13_ScalarPrecedence ==
    LlmGiven =>
      \A f \in ScalarFields :
        clinicData[f] = IF llmData[f] \notin {Nil, ""} THEN llmData[f] ELSE regexData[f]

C13_Witness ==
    /\ LlmGiven
    /\ llmData.clinic_name = "L" /\ regexData.clinic_name = "P"
    /\ llmData.email = Nil /\ regexData.email = "P"
    /\ clinicData.clinic_name = "L"
    /\ clinicData.email = "P"

\* the elements of seq at the indices idx, in order
Pick(seq, idx) ==
    LET nth(n) == CHOOSE k \in idx : Cardinality({j \in idx : j <= k}) = n
    IN [n \in 1..Cardinality(idx) |-> seq[nth(n)]]

\* the first occurrence of each normalized name
FirstPerName(list) ==
    {k \in 1..Len(list) : \A j \in 1..(k - 1) : NameKey(list[j].name) # NameKey(list[k].name)}

Named(list) == {k \in 1..Len(list) : NameKey(list[k].name) # ""}

\* the items of `pattern` whose normalized name no item of `llm` has
NotIn(pattern, llm) ==
    {k \in 1..Len(pattern) : NameKey(pattern[k].name) \notin KeysOf(llm)}

\* what a merged entry says: name, price and category of a service, name and
\* role of a doctor, a missing detail being empty
ServiceDetails(list) ==
    [k \in 1..Len(list) |->
        <<list[k].name, Or(list[k].price, ""), Or(list[k].category, "")>>]

DoctorDetails(list) ==
    [k \in 1..Len(list) |-> <<list[k].name, Or(list[k].specialization, "")>>]

LlmDoctorList == arrayOrEmpty(llmData.doctors)

\* C14 as stated: each merged list is the LLM list's first occurrence per
\* normalized name, in LLM order, then the pattern items whose normalized
\* name is not in the LLM list, in pattern order; an entry whose name is in
\* both drafts carries the LLM item's details.
C14_LlmThenPattern ==
    LlmGiven =>
      /\ ServiceDetails(clinicData.services.items)
           = ServiceDetails(Pick(LlmServiceList, FirstPerName(LlmServiceList)))
             \o ServiceDetails(Pick(regexData.services.items,
                                    NotIn(regexData.services.items, LlmServiceList)))
      /\ DoctorDetails(clinicData.doctors.items)
           = DoctorDetails(Pick(LlmDoctorList, FirstPerName(LlmDoctorList)))
             \o DoctorDetails(Pick(regexData.doctors.items,
                                   NotIn(regexData.doctors.items, LlmDoctorList)))

\* C14, amended: as stated, but of the LLM list only the items with a
\* non-empty normalized name are merged in: an LLM item whose name is null,
\* empty or blank is dropped.
C14_NamedLlmThenPattern ==
    LlmGiven =>
      /\ ServiceDetails(clinicData.services.items)
           = ServiceDetails(Pick(LlmServiceList,
                                 FirstPerName(LlmServiceList) \cap Named(LlmServiceList)))
             \o ServiceDetails(Pick(regexData.services.items,
                                    NotIn(regexData.services.items, LlmServiceList)))
      /\ DoctorDetails(clinicData.doctors.items)
           = DoctorDetails(Pick(LlmDoctorList,
                                FirstPerName(LlmDoctorList) \cap Named(LlmDoctorList)))
             \o DoctorDetails(Pick(regexData.doctors.items,
                                   NotIn(regexData.doctors.items, LlmDoctorList)))

C14_Witness ==
    /\ LlmGiven
    /\ LlmServiceList = <<Service(" haircut ", "25", Nil, Nil), Service("Haircut", "20", "hair", Nil)>>
    /\ ServiceDetails(regexData.services.items) = <<<<"Shave", "7", "">>, <<"HAIRCUT", "12", "">>>>
    /\ ServiceDetails(clinicData.services.items) = <<<<" haircut ", "25", "">>, <<"Shave", "7", "">>>>
    /\ DoctorDetails(clinicData.doctors.items)
         = <<<<"Dr. Novak", "dermatology">>, <<"Dr. Kral", "">>>>

C19_HardCap ==
    /\ Len(discovered) <= SITEMAP_CAP
    /\ pc = "loop" /\ depth = 0 => Len(currentDepthUrls) <= 1 + SITEMAP_CAP

\* every fetchText call of the discovery so far returned null
AllFetchesFailed == \A k \in 1..Len(fetchLog) : ~fetchLog[k].ok

\* C20: sitemap discovery never fails the crawl: no step of the discovery of a
\* well-formed start URL ends the run, whatever fetch fails, and when
\* robots.txt and both conventional sitemap paths are unavailable the crawl
\* goes on with a depth-0 frontier that holds the start URL only.
C20_BestEffort ==
    [][/\ pc \in {"discover", "discoverLoop"} /\ ~Malformed(cleanStartUrl)
          => pc' \in {"discoverLoop", "loop"}
       /\ pc = "discoverLoop" /\ pc' = "loop" /\ AllFetchesFailed
          => currentDepthUrls' = <<cleanStartUrl>> /\ depth' = 0 /\ visited' = {}]_vars

\* robots.txt and both conventional paths have failed and the discovery is
\* about to return
C20_Witness ==
    /\ pc = "discoverLoop"
    /\ browser = "open"
    /\ [k \in 1..Len(fetchLog) |-> fetchLog[k].url]
         = <<"/robots.txt", "/sitemap.xml", "/sitemap_index.xml">>
    /\ AllFetchesFailed
    /\ toFetch = <<>>
    /\ discovered = <<>>

\* C30: the browser launched for a crawl is closed on every exit path: whenever
\* scrapeClinicWebsite has returned or thrown after chromium.launch resolved,
\* browser.close() has run.
C30_ClosedOnEveryExit ==
    pc \in {"completed", "aborted"} /\ browser # "none" => browser = "closed"

\* the URLs handed to scrapeSinglePage so far, as `visited` holds them
DispatchedNormalized == {normalizeUrl(u) : u \in DispatchedUrls}

\* the URLs of the current depth that are still to be handed to a worker
AwaitingDispatch ==
    IF pc \in {"batch", "await"}
    THEN {normalizeUrl(urlsToScrape[k]) : k \in 1..Len(urlsToScrape)}
    ELSE {}

\* C28: every URL the controller has added to `visited` is dispatched to a
\* worker in that same depth: as long as no batch has thrown, a visited URL was
\* handed to scrapeSinglePage or is in the depth's batches still to come.
C28_VisitedIsDispatched ==
    pc \notin {"finallyThrow", "aborted"}
        => visited \subseteq DispatchedNormalized \cup AwaitingDispatch

\* a step of a scrapeSinglePage call
WorkerStep == pc' = pc /\ workers' # workers

\* C26: workers never mutate CrawlState: a step of a scrapeSinglePage call
\* leaves visited, the frontier and scrapedPages unchanged, and these change
\* only in steps of the controller taken while no call is running; pages are
\* added only by the step that folds a batch in after all its calls returned.
C26_WorkersArePure ==
    [][/\ WorkerStep => UNCHANGED <<visited, currentDepthUrls, scrapedPages>>
       /\ ~UNCHANGED <<visited, currentDepthUrls, scrapedPages>>
            => ~WorkerStep /\ NumInFlight = 0
       /\ scrapedPages' # scrapedPages
            => pc = "await" /\ workers # <<>> /\ BatchSettled(workers)]_vars

\* two calls of a batch are running, one of them past its navigation, and
\* CrawlState already holds a page of an earlier depth
C26_Witness ==
    /\ pc = "await"
    /\ NumInFlight >= 2
    /\ \E k \in 1..Len(workers) : workers[k].pc = "close" /\ workers[k].result = "page"
    /\ scrapedPages # <<>>
    /\ depth >= 1

\* the URLs of a frontier that the filter of lines 530-535 lets through
Eligible(urls) ==
    {u \in Range(urls) : normalizeUrl(u) # Null /\ ~shouldIgnoreUrl(normalizeUrl(u))}

\* C25: the frontier of every depth d+1 is deduplicated and priority-sorted: it
\* holds no URL twice, no visited URL, and no non-priority URL before a
\* priority one; so a non-priority URL of that depth is dispatched only if
\* every eligible priority URL of the frontier is dispatched too.
C25_SortedFrontier ==
    depth >= 1 /\ pc \in {"loop", "batch", "await"} =>
        /\ \A a, b \in 1..Len(currentDepthUrls) :
              a < b => /\ currentDepthUrls[a] # currentDepthUrls[b]
                       /\ ~(~isPriority(currentDepthUrls[a]) /\ isPriority(currentDepthUrls[b]))
        /\ pc = "loop" => \A u \in Range(currentDepthUrls) : u \notin visited
        /\ \A j \in 1..Len(dispatched) :
              dispatched[j].depth = depth /\ ~isPriority(dispatched[j].url)
                => \A v \in Eligible(currentDepthUrls) :
                      isPriority(v) => v \in DispatchedUrls

\* the page budget cut the depth-1 frontier (/about, /price, /blog, /a) down to
\* its priority URLs: /about and /price are dispatched, /a is not
C25_Witness ==
    /\ depth = 1
    /\ pc = "await"
    /\ currentDepthUrls = <<S("/about"), S("/price"), S("/blog"), S("/a")>>
    /\ urlsToScrape = <<S("/about"), S("/price")>>
    /\ S("/a") \notin DispatchedUrls

\* C29: for a well-formed start URL the normalized start URL is dispatched, and
\* it is the first URL dispatched, whatever the ignore patterns match.
C29_StartDispatchedFirst ==
    ~Malformed(cfg.startUrl) =>
        /\ dispatched # <<>> => normalizeUrl(dispatched[1].url) = cleanStartUrl
        /\ pc = "completed" => dispatched # <<>>

\* C21: an LLM extraction failure is swallowed: when the request fails or the
\* reply cannot be parsed, extractWithLLM returns null, the handler goes on to
\* the merge, and the run ends with a profile that is the pattern draft.
C21_LlmFailureSwallowed ==
    llmReply \in {"rejected", "unparsable"} =>
        /\ llmData = NullData
        /\ extractPc \in {"merge", "done"}
        /\ extractPc = "done" =>
              /\ clinicData = regexData
              /\ clinicData \in PatternDrafts

\* the reply was not JSON and the run has ended with the pattern draft, which
\* lists services
C21_Witness ==
    /\ extractPc = "done"
    /\ llmReply = "unparsable"
    /\ clinicData = regexData
    /\ clinicData.services.isArray
    /\ clinicData.services.items # <<>>

\* C22: when the crawl returned no pages the run ends with the error outcome
\* and no profile: normalizeClinicData, extractWithLLM and mergeExtractedData
\* do not run.
C22_NoPagesNoProfile ==
    pagesLength = 0 =>
        /\ extractPc \in {"scraped", "error"}
        /\ regexData = NoData
        /\ llmReply = "none"
        /\ llmData = NoData
        /\ clinicData = NoData

\* the handler has ended with the error event on an empty crawl result,
\* although an API key is set
C22_Witness ==
    /\ extractPc = "error"
    /\ pagesLength = 0
    /\ apiKey
    /\ clinicData = NoData

RECURSIVE PageChars(_)
\* the characters of page text in the chunks
PageChars(chunks) ==
    IF chunks = <<>> THEN 0
    ELSE (IF Head(chunks).kind = "page" THEN Head(chunks).len ELSE 0) + PageChars(Tail(chunks))

\* the pages are taken longest first and their text in the prompt stays within
\* the budget
SortedWithinBudget ==
    /\ \A a, b \in 1..Len(sortedPages) : a < b => sortedPages[a].len >= sortedPages[b].len
    /\ \A k \in 1..Len(reached) : reached[k].id = sortedPages[k].id /\ reached[k].remaining > 0
    /\ PageChars(contentChunks) <= maxTotalChars

\* C24 as stated: the prompt is built from the pages in non-increasing order of
\* content length, the page text in it never exceeds the budget, and a page
\* reached while budget remains that would overflow it is included truncated
\* to the remaining budget, never skipped.
C24_TruncatedNeverSkipped ==
    /\ SortedWithinBudget
    /\ \A k \in 1..Len(reached) :
         reached[k].len > reached[k].remaining => reached[k].included = reached[k].remaining

\* C24, amended: the pages are taken in non-increasing order of content
\* length, the page text in the prompt never exceeds the budget, and a page
\* reached while budget remains is cut to the smaller of the remaining budget
\* and MAX_PAGE_CHARS; it is skipped exactly when what would be included is at
\* most MIN_PAGE_CHARS characters, and pages are left unreached only once the
\* budget is used up.
C24_TruncatedOrTooShort ==
    /\ SortedWithinBudget
    /\ \A k \in 1..Len(reached) :
         LET r == reached[k]
             cut == Min(r.len, Min(r.remaining, MAX_PAGE_CHARS))
         IN /\ r.included \in {0, cut}
            /\ r.included = 0 <=> cut <= MIN_PAGE_CHARS
    /\ promptPc \in {"prices", "built"} /\ Len(reached) < Len(sortedPages)
         => totalChars >= maxTotalChars

\* seven long pages went in cut to MAX_PAGE_CHARS, the eighth was cut to the
\* 3300 characters of budget left, and the ninth page was not reached
C24_Witness ==
    /\ promptPc = "built"
    /\ Len(reached) = 8
    /\ reached[8].len = LongLength
    /\ reached[8].remaining = 3300
    /\ reached[8].included = 3300
    /\ Len(sortedPages) = 9
    /\ PageChars(contentChunks) = 59300

\* the positions of the containers (not body) that are present and hold more
\* than GOOD_CONTENT_CHARS characters
Qualifying ==
    {k \in 1..Len(contentSelectors) :
        /\ contentSelectors[k] # "body"
        /\ dom[contentSelectors[k]].present
        /\ dom[contentSelectors[k]].len > GOOD_CONTENT_CHARS}

\* the kept text is a prefix of the chosen selection's text, of at most
\* MAX_CONTENT_CHARS characters
KeptTextBounded ==
    /\ content.from \in Range(contentSelectors)
    /\ dom[content.from].present
    /\ content.len = Min(dom[content.from].len, MAX_CONTENT_CHARS)
    /\ content.len <= MAX_CONTENT_CHARS

Present == {k \in 1..Len(contentSelectors) : dom[contentSelectors[k]].present}

\* the positions of the longest texts among the present selections
Longest ==
    {k \in Present : \A j \in Present :
        dom[contentSelectors[k]].len >= dom[contentSelectors[j]].len}

\* the least position of a set of positions
First(positions) == CHOOSE k \in positions : \A j \in positions : k <= j

ServicesFound ==
    {c.key : c \in {d \in Range(matches.prices) : d.len > 3 /\ d.len < 150}}
    \cup {c.key : c \in {d \in Range(matches.patterns) : d.len > 4 /\ d.len < 100}}

DoctorsFound == {d.lastName : d \in Range(matches.doctors)}

\* C23: the pattern normalizer applies no count cap: every distinct service
\* (by lower-cased name) and every distinct staff member (by last name) found
\* in the pages is in the pattern draft, each once, however many there are.
C23_NoCountCap ==
    normPc = "normalized" =>
        /\ {c.key : c \in Range(patternDraft.services)} = ServicesFound
        /\ Len(patternDraft.services) = Cardinality(ServicesFound)
        /\ {d.lastName : d \in Range(patternDraft.doctors)} = DoctorsFound
        /\ Len(patternDraft.doctors) = Cardinality(DoctorsFound)

====
